---------------------------- MODULE Spec2Model ----------------------------
(***************************************************************************)
(* Model of the AI enhancement orchestrator (AIEnhancer), the backend      *)
(* detector (LLMDetector) and the configuration-change handler of the      *)
(* Better Prompts extension.                                               *)
(*                                                                         *)
(* Strings are sequences of one-character strings.  Every "await" of the   *)
(* code at which the event loop can run other work is a separate step.     *)
(***************************************************************************)
EXTENDS Integers, Sequences, FiniteSets, TLC

\* ------------------------------------------------------------------ bounds
\* how many times the clock advances in one behaviour
MaxTicks == 2

\* ------------------------------------------------------- program constants
\* LLMDetector.CACHE_DURATION
CACHE_DURATION == 60000
\* the abort timer of isOllamaRunning
PROBE_TIMEOUT == 2000
\* the length of the preview: substring(0, 200)
PREVIEW_LEN == 200

NULL == "null"

\* ------------------------------------------------------------------- text
Upper == <<"A","B","C","D","E","F","G","H","I","J","K","L","M",
           "N","O","P","Q","R","S","T","U","V","W","X","Y","Z">>
Lower == <<"a","b","c","d","e","f","g","h","i","j","k","l","m",
           "n","o","p","q","r","s","t","u","v","w","x","y","z">>

\* String.prototype.toLowerCase on one character
ToLower(c) ==
  IF \E i \in 1..26 : Upper[i] = c
  THEN Lower[CHOOSE i \in 1..26 : Upper[i] = c]
  ELSE c

IsSpace(c) == c \in {" ", "\n", "\t"}
IsQuote(c) == c \in {"\"", "'"}

RECURSIVE TrimLeft(_)
TrimLeft(s) ==
  IF s # <<>> /\ IsSpace(Head(s)) THEN TrimLeft(Tail(s)) ELSE s

RECURSIVE TrimRight(_)
TrimRight(s) ==
  IF s # <<>> /\ IsSpace(s[Len(s)]) THEN TrimRight(SubSeq(s, 1, Len(s) - 1)) ELSE s

\* String.prototype.trim
Trim(s) == TrimRight(TrimLeft(s))

\* String.prototype.substring(0, n)
Substring0(s, n) == SubSeq(s, 1, IF Len(s) < n THEN Len(s) ELSE n)

\* s starts with p, compared case-insensitively (the /i flag)
StartsWithCI(s, p) ==
  /\ Len(s) >= Len(p)
  /\ \A i \in 1..Len(p) : ToLower(s[i]) = ToLower(p[i])

\* the alternatives of /^(Enhanced prompt:|Here's the enhanced prompt:|Output:)\s*/i
ARTIFACT_PREFIXES ==
  << <<"E","n","h","a","n","c","e","d"," ","p","r","o","m","p","t",":">>,
     <<"H","e","r","e","'","s"," ","t","h","e"," ",
       "e","n","h","a","n","c","e","d"," ","p","r","o","m","p","t",":">>,
     <<"O","u","t","p","u","t",":">> >>

\* .replace(/^(Enhanced prompt:|Here's the enhanced prompt:|Output:)\s*/i, '')
StripArtifactPrefix(s) ==
  IF \E k \in 1..Len(ARTIFACT_PREFIXES) : StartsWithCI(s, ARTIFACT_PREFIXES[k])
  THEN LET k == CHOOSE j \in 1..Len(ARTIFACT_PREFIXES) :
                  /\ StartsWithCI(s, ARTIFACT_PREFIXES[j])
                  /\ \A i \in 1..(j - 1) : ~StartsWithCI(s, ARTIFACT_PREFIXES[i])
       IN  TrimLeft(SubSeq(s, Len(ARTIFACT_PREFIXES[k]) + 1, Len(s)))
  ELSE s

\* .replace(/^["']|["']$/g, '')
StripQuotes(s) ==
  LET a == IF s # <<>> /\ IsQuote(Head(s)) THEN Tail(s) ELSE s
  IN  IF a # <<>> /\ IsQuote(a[Len(a)]) THEN SubSeq(a, 1, Len(a) - 1) ELSE a

\* the cleanup chain of callOllamaAPI
CleanOllamaText(s) == Trim(StripQuotes(StripArtifactPrefix(s)))


\* ------------------------------------------------------------ value sets
Str_ai == <<"a","i">>
Str_fix == <<"f","i","x">>
Str_Fix == <<"F","i","x"," ","i","t",".">>

\* message.userInput / the text typed in the input box
UserInputs == {Str_fix}
\* the rule-based prompt handed to enhance: ruleResult.prompt (extension.ts) or the
\* user input itself (sidebarProvider.ts)
RulePrompts == {Str_Fix, Str_fix}

\* texts a provider may generate
ApiTexts == {<<>>, Str_ai}
OllamaTexts ==
  { <<>>, Str_ai, <<" ">> \o Str_ai \o <<"\n">>,
    <<"O","u","t","p","u","t",":"," ">> \o Str_ai,
    <<"\"">> \o Str_ai \o <<"\"">>,
    <<"o","u","t","p","u","t",":">> }

\* The outcome of one fetch of a generation endpoint:
\*   neterr   fetch rejects (network error, connection reset)
\*   http500  a response whose ok is false
\*   badjson  response.json() rejects
\*   json     a parsed body: nocontainer (the object read is missing),
\*            nofield (the field is missing) or text
Response(kind, shape, text) == [kind |-> kind, shape |-> shape, text |-> text]
FailedResponses ==
  { Response(k, "nofield", <<>>) : k \in {"neterr", "http500", "badjson"} }
Responses(texts) ==
  FailedResponses
    \cup { Response("json", sh, <<>>) : sh \in {"nocontainer", "nofield"} }
    \cup { Response("json", "text", t) : t \in texts }

\* what /api/tags may list
ModelLists == { <<>>, <<"llama3.2">> }

Modes == {"auto", "manual", "ruleOnly", "other"}
ManualProviders == {"ollama", "anthropic", "openai", "unknown"}
ApiKeys == {<<>>, <<"k">>}
Configs == [enhancementMode : Modes, manualProvider : ManualProviders, apiKey : ApiKeys]
\* the defaults of config.get: 'auto', 'ollama', ''
DefaultConfig == [enhancementMode |-> "auto", manualProvider |-> "ollama", apiKey |-> <<>>]

\* --------------------------------------------------------- EnhancedPrompt
EnhancedPrompt(prompt, ai) ==
  [prompt |-> prompt, preview |-> Substring0(prompt, PREVIEW_LEN), wasAiEnhanced |-> ai]

\* the rule-based result: { prompt: fallback, preview: ..., wasAiEnhanced: false }
RuleBased(fallback) == EnhancedPrompt(fallback, FALSE)

Return(v) == [kind |-> "return", value |-> v]
Throw == [kind |-> "throw", value |-> EnhancedPrompt(<<>>, FALSE)]

\* callOllamaAPI once its fetch has settled with resp
CallOllamaAPI(userInput, resp) ==
  IF resp.kind # "json" \/ resp.shape = "nocontainer"
  THEN Throw
  ELSE LET trimmed  == IF resp.shape = "text" THEN Trim(resp.text) ELSE <<>>
           enhanced == IF trimmed = <<>> THEN userInput ELSE trimmed
       IN  Return(EnhancedPrompt(CleanOllamaText(enhanced), TRUE))

\* callAnthropicAPI once its fetch has settled with resp
CallAnthropicAPI(userInput, resp) ==
  IF resp.kind # "json" \/ resp.shape = "nocontainer"
  THEN Throw
  ELSE LET text     == IF resp.shape = "text" THEN resp.text ELSE <<>>
           enhanced == IF text = <<>> THEN userInput ELSE text
       IN  Return(EnhancedPrompt(enhanced, TRUE))

\* callOpenAIAPI once its fetch has settled with resp
CallOpenAIAPI(userInput, resp) ==
  IF resp.kind # "json" \/ resp.shape = "nocontainer"
  THEN Throw
  ELSE LET text     == IF resp.shape = "text" THEN resp.text ELSE <<>>
           enhanced == IF text = <<>> THEN userInput ELSE text
       IN  Return(EnhancedPrompt(enhanced, TRUE))

\* a catch of enhanceWithManualAPI that marks the rule-based prompt as AI-enhanced
ManualCatch_FlagsFallback(r, fallback) ==
  IF r.kind = "throw" THEN Return(EnhancedPrompt(fallback, TRUE)) ELSE r

\* the catch of enhanceWithManualAPI: it encloses the anthropic/openai switch only
ManualCatch(r, fallback) ==
  IF r.kind = "throw" THEN Return(RuleBased(fallback)) ELSE r

\* enhance without its try/catch: the exception leaves enhance
EnhanceCatch_Rethrow(r, fallback) == r

\* the catch of enhance, followed by its final return
EnhanceCatch(r, fallback) ==
  IF r.kind = "throw" THEN Return(RuleBased(fallback)) ELSE r

\* ----------------------------------------------------------- LLMDetector
Detection(provider, available, canEnhance, displayName) ==
  [provider |-> provider, available |-> available,
   canEnhance |-> canEnhance, displayName |-> displayName]

\* cachedResult = null
NoDetection == Detection(NULL, FALSE, FALSE, NULL)

\* the priority chain of detect: Cursor > Claude Code > Continue > Cody > Copilot > None
DetectResult(cursor, claude, continue, cody, copilot) ==
  IF cursor THEN Detection("cursor", TRUE, TRUE, "Cursor")
  ELSE IF claude THEN Detection("claude-code", TRUE, TRUE, "Claude Code")
  ELSE IF continue THEN Detection("continue", TRUE, TRUE, "Continue.dev")
  ELSE IF cody THEN Detection("cody", TRUE, TRUE, "Sourcegraph Cody")
  ELSE IF copilot THEN Detection("copilot", TRUE, FALSE, "GitHub Copilot")
  ELSE Detection("none", FALSE, FALSE, "None detected")

\* ------------------------------------------------------------------ state
VARIABLES
  config,            \* the betterPrompts settings
  now,               \* Date.now(), counted from the extension's activation clock
  ticks,             \* how many times the clock has advanced
  ollamaAvailable,   \* AIEnhancer.ollamaAvailable: "null", "true" or "false"
  ollamaModels,      \* AIEnhancer.ollamaModels
  cachedResult,      \* LLMDetector.cachedResult
  lastCheck,         \* LLMDetector.lastCheck
  call,              \* the invocation each caller has in progress
  detStoredAt,       \* history: when detect last stored a result (-1: never, or cleared since)
  detStoredStart,    \* history: when the detect call that stored it began (-1 likewise)
  lastClear,         \* history: when LLMDetector.clearCache last ran (-1: never)
  rule               \* the last call of a RuleEngine method: its argument and result

vars == <<config, now, ticks, ollamaAvailable, ollamaModels,
          cachedResult, lastCheck, call, detStoredAt, detStoredStart, lastClear, rule>>

enhancerVars == <<ollamaAvailable, ollamaModels>>
detectorVars == <<cachedResult, lastCheck, detStoredAt, detStoredStart, lastClear>>
hostVars     == <<config, now, ticks>>

\* no RuleEngine method has been called
NoRuleCall == [op |-> "none"]

\* The callers: "enhance" runs aiEnhancer.enhance (generateAndCopyPrompt,
\* _handleGenerate); "status" runs aiEnhancer.getStatus (_handleCheckStatus) or
\* llmDetector.detect (updateStatusBar).
Procs == {"enhance", "status"}

\* the clock starts well past the epoch: Date.now() - 0 >= CACHE_DURATION
StartTime == 2 * CACHE_DURATION
\* the amounts by which the clock advances between two steps
TimeSteps == {1, CACHE_DURATION - 1}

NoStatus == [available |-> NULL, models |-> <<>>]
\* no generation fetch has settled
NoResponse == Response("none", "nofield", <<>>)

IdleCall ==
  [op |-> "none", pc |-> "idle",
   userInput |-> <<>>, fallback |-> <<>>,
   mode |-> NULL, force |-> FALSE, detNow |-> 0,
   provider |-> NULL, target |-> "none", via |-> "none",
   timer |-> FALSE, trace |-> <<>>, reported |-> -1, resp |-> NoResponse,
   ollamaStatus |-> NoStatus, detection |-> NoDetection,
   result |-> EnhancedPrompt(<<>>, FALSE), statusProvider |-> NULL, statusAvailable |-> NULL]

Init ==
  /\ config = DefaultConfig
  /\ now = StartTime
  /\ ticks = 0
  /\ ollamaAvailable = NULL
  /\ ollamaModels = <<>>
  /\ cachedResult = NoDetection
  /\ lastCheck = 0
  /\ call = [p \in Procs |-> IdleCall]
  /\ detStoredAt = -1
  /\ detStoredStart = -1
  /\ lastClear = -1
  /\ rule = NoRuleCall

Truthy(b) == b = "true"
BoolStr(b) == IF b THEN "true" ELSE "false"

\* ------------------------------------------------- AIEnhancer.enhance, pure
\* enhance leaves through its catch and final return with outcome r
Finish(c, r) ==
  LET o == EnhanceCatch(r, c.fallback)
  IN  IF o.kind = "return"
      THEN [c EXCEPT !.pc = "returned", !.timer = FALSE, !.result = o.value]
      ELSE [c EXCEPT !.pc = "threw", !.timer = FALSE]

\* a generation request leaves for target; no abort timer is set for it
Dispatch(c, target, via) ==
  [c EXCEPT !.pc = "gen", !.target = target, !.timer = FALSE,
            !.via = IF c.via = "none" THEN via ELSE c.via,
            !.trace = Append(c.trace, "gen")]

\* an enhanceWithManualAPI that does not look at the API key before calling
EnhanceWithManualAPI_NoKeyCheck(c, cfg) ==
  LET provider == cfg.manualProvider
      d == [c EXCEPT !.provider = provider]
  IN  IF provider = "ollama" THEN Dispatch(d, "ollama", "manual")
      ELSE IF provider \in {"anthropic", "openai"} THEN Dispatch(d, provider, "manual")
      ELSE Finish(d, ManualCatch(Throw, d.fallback))

\* an enhanceWithManualAPI whose switch sends every other provider to OpenAI
EnhanceWithManualAPI_DefaultOpenAI(c, cfg) ==
  LET provider == cfg.manualProvider
      d == [c EXCEPT !.provider = provider]
  IN  IF provider = "ollama" THEN Dispatch(d, "ollama", "manual")
      ELSE IF cfg.apiKey = <<>> THEN Finish(d, Return(RuleBased(d.fallback)))
      ELSE IF provider = "anthropic" THEN Dispatch(d, provider, "manual")
      ELSE Dispatch(d, "openai", "manual")

\* enhanceWithManualAPI up to its first await, under the settings cfg
EnhanceWithManualAPI(c, cfg) ==
  LET provider == cfg.manualProvider
      d == [c EXCEPT !.provider = provider]
  IN  IF provider = "ollama" THEN Dispatch(d, "ollama", "manual")
      ELSE IF cfg.apiKey = <<>> THEN Finish(d, Return(RuleBased(d.fallback)))
      ELSE IF provider \in {"anthropic", "openai"} THEN Dispatch(d, provider, "manual")
      ELSE Finish(d, ManualCatch(Throw, d.fallback))

\* an enhanceWithProvider that dispatches by the detected provider's identity
EnhanceWithProvider_ByIdentity(c, provider, cfg) ==
  LET d == [c EXCEPT !.via = "detected", !.provider = cfg.manualProvider]
  IN  CASE provider = "claude-code" -> Dispatch(d, "anthropic", "detected")
        [] provider = "cursor"      -> Dispatch(d, "openai", "detected")
        [] provider \in {"continue", "cody"} -> Dispatch(d, "ollama", "detected")
        [] OTHER -> Finish(c, Return(RuleBased(c.fallback)))

\* enhanceWithProvider
EnhanceWithProvider(c, provider, cfg) ==
  IF provider \in {"cursor", "claude-code", "continue", "cody"}
  THEN EnhanceWithManualAPI([c EXCEPT !.via = "detected"], cfg)
  ELSE Finish(c, Return(RuleBased(c.fallback)))

\* a generation call that is tried a second time when it fails
AfterGeneration_Retry(c, resp) ==
  LET r == CASE c.target = "ollama"    -> CallOllamaAPI(c.userInput, resp)
             [] c.target = "anthropic" -> ManualCatch(CallAnthropicAPI(c.userInput, resp), c.fallback)
             [] OTHER                  -> ManualCatch(CallOpenAIAPI(c.userInput, resp), c.fallback)
  IN  IF resp.kind # "json" /\ Len(SelectSeq(c.trace, LAMBDA e : e = "gen")) < 2
      THEN Dispatch([c EXCEPT !.resp = resp], c.target, c.via)
      ELSE Finish([c EXCEPT !.resp = resp], r)

\* a generation call that turns to the next backend when the local one fails
AfterGeneration_NextBackend(c, resp) ==
  LET r == CASE c.target = "ollama"    -> CallOllamaAPI(c.userInput, resp)
             [] c.target = "anthropic" -> ManualCatch(CallAnthropicAPI(c.userInput, resp), c.fallback)
             [] OTHER                  -> ManualCatch(CallOpenAIAPI(c.userInput, resp), c.fallback)
  IN  IF resp.kind # "json" /\ c.target = "ollama"
      THEN Dispatch([c EXCEPT !.resp = resp], "anthropic", c.via)
      ELSE Finish([c EXCEPT !.resp = resp], r)

\* the generation fetch of call c settles with resp
AfterGeneration(c, resp) ==
  LET r == CASE c.target = "ollama"    -> CallOllamaAPI(c.userInput, resp)
             [] c.target = "anthropic" -> ManualCatch(CallAnthropicAPI(c.userInput, resp), c.fallback)
             [] OTHER                  -> ManualCatch(CallOpenAIAPI(c.userInput, resp), c.fallback)
  IN  Finish([c EXCEPT !.resp = resp], r)

\* enhance after "const detection = await llmDetector.detect()"
\* getStatus after the same await; updateStatusBar likewise
AfterDetect(c, detection, cfg) ==
  LET d == [c EXCEPT !.detection = detection, !.detNow = 0]
  IN  CASE d.op = "enhance" ->
             IF detection.canEnhance
             THEN EnhanceWithProvider(d, detection.provider, cfg)
             ELSE Finish(d, Return(RuleBased(d.fallback)))
        [] d.op = "getStatus" ->
             [d EXCEPT !.pc = "returned",
                       !.statusProvider = detection.displayName,
                       !.statusAvailable = BoolStr(detection.canEnhance)]
        [] OTHER -> [d EXCEPT !.pc = "returned"]

\* an await of detect() placed outside enhance's try block
AfterDetectThrew_Uncaught(c) == [c EXCEPT !.pc = "threw", !.detNow = 0]

\* the awaited detect() rejected
AfterDetectThrew(c) ==
  IF c.op = "enhance"
  THEN Finish([c EXCEPT !.detNow = 0], Throw)
  ELSE [c EXCEPT !.pc = "threw", !.detNow = 0]

\* checkOllama up to its first await: isOllamaRunning arms its abort timer and fetches
EnterCheckOllama(c) ==
  [c EXCEPT !.pc = "probe", !.timer = TRUE,
            !.trace = Append(c.trace, "probe")]

\* enhance without the ruleOnly short-circuit
EnhanceEntry_NoShortCircuit(c, cfg) ==
  IF cfg.enhancementMode \in {"auto", "ruleOnly"} THEN EnterCheckOllama(c)
  ELSE IF cfg.enhancementMode = "manual" THEN EnhanceWithManualAPI(c, cfg)
  ELSE Finish(c, Return(RuleBased(c.fallback)))

\* enhance from its entry to its first await (or its return), under the settings cfg
EnhanceEntry(c, cfg) ==
  IF cfg.enhancementMode = "ruleOnly"
  THEN [c EXCEPT !.pc = "returned", !.result = RuleBased(c.fallback)]
  ELSE IF cfg.enhancementMode = "auto" THEN EnterCheckOllama(c)
  ELSE IF cfg.enhancementMode = "manual" THEN EnhanceWithManualAPI(c, cfg)
  ELSE Finish(c, Return(RuleBased(c.fallback)))

\* -------------------------------------------------- LLMDetector.detect
\* a cache whose time-to-live is taken in seconds
DetectCacheHit_Seconds(force, t) ==
  ~force /\ cachedResult # NoDetection /\ (t - lastCheck) < CACHE_DURATION \div 1000

\* "return cached result if valid", evaluated at time t
DetectCacheHit(force, t) ==
  ~force /\ cachedResult # NoDetection /\ (t - lastCheck) < CACHE_DURATION

\* this.cachedResult = result; this.lastCheck = now (the time read at detect's entry)
StoreDetection(result, t) ==
  /\ cachedResult' = result
  /\ lastCheck' = t
  /\ detStoredAt' = now
  /\ detStoredStart' = t
  /\ UNCHANGED lastClear

\* detect(force) called by p, up to its first await or its return; cursor is
\* isCursorEditor()
EnterDetect(p, c, force, cursor) ==
  LET e == [c EXCEPT !.force = force, !.detNow = now,
                     !.trace = Append(c.trace, "detect")]
      scan == [e EXCEPT !.trace = Append(e.trace, "scan")]
  IN  IF DetectCacheHit(force, now)
      THEN /\ call' = [call EXCEPT ![p] = AfterDetect(e, cachedResult, config)]
           /\ UNCHANGED detectorVars
      ELSE IF cursor
      THEN /\ StoreDetection(DetectResult(TRUE, FALSE, FALSE, FALSE, FALSE), now)
           /\ call' = [call EXCEPT ![p] =
                         AfterDetect(scan, DetectResult(TRUE, FALSE, FALSE, FALSE, FALSE), config)]
      ELSE /\ call' = [call EXCEPT ![p] = [scan EXCEPT !.pc = "exec"]]
           /\ UNCHANGED detectorVars

\* ------------------------------------------------ AIEnhancer.checkOllama
\* the caller's code after "await this.checkOllama()" returned status
AfterCheckOllama(p, c, status, cursor) ==
  LET d == [c EXCEPT !.timer = FALSE,
                     !.ollamaStatus = IF c.op = "enhance" THEN NoStatus ELSE status]
  IN  IF d.op = "enhance"
      THEN IF Truthy(status.available) /\ Len(status.models) > 0
           THEN /\ call' = [call EXCEPT ![p] = Dispatch(d, "ollama", "local")]
                /\ UNCHANGED detectorVars
           ELSE EnterDetect(p, d, FALSE, cursor)
      ELSE IF d.mode = "manual"
           THEN /\ call' = [call EXCEPT ![p] =
                              [d EXCEPT !.pc = "returned", !.statusProvider = "Ollama",
                                        !.statusAvailable = status.available]]
                /\ UNCHANGED detectorVars
           ELSE IF Truthy(status.available)
           THEN /\ call' = [call EXCEPT ![p] =
                              [d EXCEPT !.pc = "returned", !.statusProvider = "Ollama (auto)",
                                        !.statusAvailable = "true"]]
                /\ UNCHANGED detectorVars
           ELSE EnterDetect(p, d, FALSE, cursor)

\* ---------------------------------------------------------------- actions
Settled(p) == call[p].pc \in {"returned", "threw"}

\* No caller is at the point where its invocation has just settled: the
\* continuation of the awaiting caller runs before any other event is handled.
Quiet == \A p \in Procs : ~Settled(p)

\* one invocation at a time
Idle == \A p \in Procs : call[p].pc = "idle"

\* aiEnhancer.enhance(userInput, ruleEnhancedPrompt) is called
EnhanceBegin(u, r) ==
  /\ call' = [call EXCEPT !["enhance"] =
       EnhanceEntry([IdleCall EXCEPT !.op = "enhance", !.userInput = u, !.fallback = r,
                                     !.mode = config.enhancementMode], config)]
  /\ UNCHANGED <<rule, hostVars, enhancerVars, detectorVars>>

\* aiEnhancer.enhance is called while no other invocation is in progress
EnhanceStart(u, r) == Idle /\ EnhanceBegin(u, r)

\* aiEnhancer.getStatus() is called
GetStatusBegin ==
  /\ LET c == [IdleCall EXCEPT !.op = "getStatus", !.mode = config.enhancementMode,
                               !.provider = config.manualProvider]
     IN  call' = [call EXCEPT !["status"] =
           IF c.mode = "ruleOnly"
           THEN [c EXCEPT !.pc = "returned", !.statusProvider = "Rule-based",
                          !.statusAvailable = "true"]
           ELSE IF c.mode = "manual" /\ c.provider = "ollama" THEN EnterCheckOllama(c)
           ELSE IF c.mode = "manual"
           THEN [c EXCEPT !.pc = "returned",
                          !.statusProvider =
                             IF c.provider = "anthropic" THEN "Anthropic" ELSE "OpenAI",
                          !.statusAvailable = BoolStr(config.apiKey # <<>>)]
           ELSE EnterCheckOllama(c)]
  /\ UNCHANGED <<rule, hostVars, enhancerVars, detectorVars>>

\* aiEnhancer.getStatus() is called while no other invocation is in progress
GetStatusStart == Idle /\ GetStatusBegin

\* llmDetector.detect(forceRefresh) is called (updateStatusBar calls detect())
DetectStart(force, cursor) ==
  /\ Idle
  /\ EnterDetect("status", [IdleCall EXCEPT !.op = "detect"], force, cursor)
  /\ UNCHANGED <<rule, hostVars, enhancerVars>>

\* the fetch of isOllamaRunning settles: ok is response.ok, FALSE also for a
\* rejected fetch
ProbeResponse(p, ok, cursor) ==
  /\ Quiet
  /\ call[p].pc = "probe"
  /\ ollamaAvailable' = BoolStr(ok)
  /\ IF ok
     THEN /\ call' = [call EXCEPT ![p] = [@ EXCEPT !.pc = "models", !.timer = FALSE,
                                                   !.trace = Append(@, "models")]]
          /\ UNCHANGED <<ollamaModels, detectorVars>>
     ELSE /\ UNCHANGED ollamaModels
          /\ AfterCheckOllama(p, call[p], [available |-> "false", models |-> ollamaModels],
                              cursor)
  /\ UNCHANGED <<rule, hostVars>>

\* the abort timer of isOllamaRunning fires before the fetch settles
ProbeAbort(p, cursor) ==
  /\ Quiet
  /\ call[p].pc = "probe"
  /\ call[p].timer
  /\ ollamaAvailable' = "false"
  /\ UNCHANGED ollamaModels
  /\ AfterCheckOllama(p, call[p], [available |-> "false", models |-> ollamaModels], cursor)
  /\ UNCHANGED <<rule, hostVars>>

\* the fetch of getOllamaModels settles: models is [] for a failure
ModelsResponse(p, models, cursor) ==
  /\ Quiet
  /\ call[p].pc = "models"
  /\ ollamaModels' = models
  /\ UNCHANGED ollamaAvailable
  /\ AfterCheckOllama(p, [call[p] EXCEPT !.reported = Len(models)],
                      [available |-> ollamaAvailable, models |-> models], cursor)
  /\ UNCHANGED <<rule, hostVars>>

\* isClaudeCodeInstalled settles and detect runs to its end
ExecResponse(p, claude, continue, cody, copilot) ==
  /\ Quiet
  /\ call[p].pc = "exec"
  /\ LET result == DetectResult(FALSE, claude, continue, cody, copilot)
     IN  /\ StoreDetection(result, call[p].detNow)
         /\ call' = [call EXCEPT ![p] = AfterDetect(call[p], result, config)]
  /\ UNCHANGED <<rule, hostVars, enhancerVars>>

\* a host call made by detect (vscode.extensions.getExtension) raises
DetectRejects(p) ==
  /\ Quiet
  /\ call[p].pc = "exec"
  /\ call' = [call EXCEPT ![p] = AfterDetectThrew(call[p])]
  /\ UNCHANGED <<rule, hostVars, enhancerVars, detectorVars>>

\* the generation fetch settles
GenResponse(p, resp) ==
  /\ Quiet
  /\ call[p].pc = "gen"
  /\ resp \in Responses(IF call[p].target = "ollama" THEN OllamaTexts ELSE ApiTexts)
  /\ call' = [call EXCEPT ![p] = AfterGeneration(call[p], resp)]
  /\ UNCHANGED <<rule, hostVars, enhancerVars, detectorVars>>

\* a settings listener that clears the enhancer's cache only
ClearCaches_EnhancerOnly ==
  /\ ollamaAvailable' = NULL
  /\ ollamaModels' = <<>>
  /\ UNCHANGED detectorVars

\* AIEnhancer.clearCache and LLMDetector.clearCache
ClearCaches ==
  /\ ollamaAvailable' = NULL
  /\ ollamaModels' = <<>>
  /\ cachedResult' = NoDetection
  /\ lastCheck' = 0
  /\ detStoredAt' = -1
  /\ detStoredStart' = -1
  /\ lastClear' = now

\* the settings after the user has edited one of them
OneSettingChanged(cfg) ==
  { c \in Configs : Cardinality({k \in DOMAIN cfg : c[k] # cfg[k]}) = 1 }

\* the onDidChangeConfiguration listener
OnDidChangeConfiguration(affects, cfg) ==
  /\ Quiet
  /\ IF affects
     THEN /\ config' = cfg
          /\ ClearCaches
          /\ UNCHANGED <<now, ticks, call, rule>>
     ELSE UNCHANGED vars

\* the caller of a settled invocation takes its result (or its exception)
Deliver(p) ==
  /\ Settled(p)
  /\ call' = [call EXCEPT ![p] = IdleCall]
  /\ UNCHANGED <<rule, hostVars, enhancerVars, detectorVars>>

\* time passes
Tick(d) ==
  /\ Quiet
  /\ ticks < MaxTicks
  /\ now' = now + d
  /\ ticks' = ticks + 1
  /\ UNCHANGED <<config, call, rule, enhancerVars, detectorVars>>

\* the settings after the user has edited the enhancement mode
ModeChanged(cfg) ==
  { c \in OneSettingChanged(cfg) : c.enhancementMode # cfg.enhancementMode }

\* The orchestrator: every invocation, every response and the settings listener.
\* The clock stands still; the detector's cache misses when it is empty, cleared
\* or bypassed by forceRefresh.
Next ==
  \/ \E u \in UserInputs, r \in RulePrompts : EnhanceStart(u, r)
  \/ GetStatusStart
  \/ \E force, cursor \in BOOLEAN : DetectStart(force, cursor)
  \/ \E p \in Procs, ok, cursor \in BOOLEAN : ProbeResponse(p, ok, cursor)
  \/ \E p \in Procs, cursor \in BOOLEAN : ProbeAbort(p, cursor)
  \/ \E p \in Procs, models \in ModelLists, cursor \in BOOLEAN :
       ModelsResponse(p, models, cursor)
  \/ \E p \in Procs, claude, continue, cody, copilot \in BOOLEAN :
       ExecResponse(p, claude, continue, cody, copilot)
  \/ \E p \in Procs : DetectRejects(p)
  \/ \E p \in Procs, resp \in Responses(OllamaTexts) : GenResponse(p, resp)
  \/ \E affects \in BOOLEAN, cfg \in OneSettingChanged(config) :
       OnDidChangeConfiguration(affects, cfg)
  \/ \E p \in Procs : Deliver(p)

Spec == Init /\ [][Next]_vars

\* The two caches under a running clock: getStatus and detect, their responses,
\* the settings listener and the passing of time.
CacheNext ==
  \/ GetStatusStart
  \/ \E force, cursor \in BOOLEAN : DetectStart(force, cursor)
  \/ \E p \in Procs, ok, cursor \in BOOLEAN : ProbeResponse(p, ok, cursor)
  \/ \E p \in Procs, cursor \in BOOLEAN : ProbeAbort(p, cursor)
  \/ \E p \in Procs, models \in ModelLists, cursor \in BOOLEAN :
       ModelsResponse(p, models, cursor)
  \/ \E p \in Procs, claude, continue, cody, copilot \in BOOLEAN :
       ExecResponse(p, claude, continue, cody, copilot)
  \/ \E p \in Procs : DetectRejects(p)
  \/ \E affects \in BOOLEAN, cfg \in ModeChanged(config) :
       OnDidChangeConfiguration(affects, cfg)
  \/ \E p \in Procs : Deliver(p)
  \/ \E d \in TimeSteps : Tick(d)

CacheSpec == Init /\ [][CacheNext]_vars

\* a request or a host call that invocation p awaits settles
Settles(p) ==
  \/ \E ok, cursor \in BOOLEAN : ProbeResponse(p, ok, cursor)
  \/ \E cursor \in BOOLEAN : ProbeAbort(p, cursor)
  \/ \E models \in ModelLists, cursor \in BOOLEAN : ModelsResponse(p, models, cursor)
  \/ \E claude, continue, cody, copilot \in BOOLEAN :
       ExecResponse(p, claude, continue, cody, copilot)
  \/ DetectRejects(p)
  \/ \E resp \in Responses(OllamaTexts) : GenResponse(p, resp)

\* The orchestrator when every awaited request and host call settles, by success,
\* by failure or by an exception.
LiveSpec == Init /\ [][Next]_vars /\ \A p \in Procs : WF_vars(Settles(p))

\* ----------------------------------------------------------------- claims
Has(seq, e) == \E i \in 1..Len(seq) : seq[i] = e
Count(seq, e) == Cardinality({i \in 1..Len(seq) : seq[i] = e})

\* the outbound network requests an invocation has issued so far
Requests(c) == Count(c.trace, "probe") + Count(c.trace, "models") + Count(c.trace, "gen")

\* fetch rejected (network error, timeout), non-2xx status, body that is not JSON
TransportFailures == {"neterr", "http500", "badjson"}

\* C1: in auto or manual mode, an enhance whose generation call failed by a
\* transport failure returns the rule-based prompt exactly, with wasAiEnhanced false.
C1_TransportFailureFallsBack ==
  \A p \in Procs :
    LET c == call[p]
    IN  (c.op = "enhance" /\ c.mode \in {"auto", "manual"} /\ c.resp.kind \in TransportFailures)
          => /\ c.pc = "returned"
             /\ c.result.prompt = c.fallback
             /\ c.result.wasAiEnhanced = FALSE

\* an auto-mode call to the local backend got a body that is not JSON, and returned
C1_Witness ==
  \E p \in Procs :
    /\ call[p].op = "enhance" /\ call[p].pc = "returned"
    /\ call[p].mode = "auto" /\ call[p].target = "ollama"
    /\ call[p].resp.kind = "badjson"
    /\ call[p].fallback = Str_Fix

\* an invocation of enhance has not thrown, and what it returned is an EnhancedPrompt
EnhanceSettledWell ==
  \A p \in Procs :
    LET c == call[p]
    IN  c.op = "enhance"
          => /\ c.pc # "threw"
             /\ c.pc = "returned"
                  => /\ c.result.wasAiEnhanced \in BOOLEAN
                     /\ c.result = EnhancedPrompt(c.result.prompt, c.result.wasAiEnhanced)

\* C2: for every mode value, when the probe, the model-list fetch, the detector and
\* the generation call each settle (by success, failure or exception), enhance never
\* lets an exception reach its caller and every invocation eventually returns an
\* EnhancedPrompt.
C2_EnhanceAlwaysReturns ==
  /\ []EnhanceSettledWell
  /\ \A p \in Procs : (call[p].op = "enhance") ~> (call[p].pc = "returned")

\* the detector raised inside enhance, and enhance returned
C2_Witness ==
  \E p \in Procs :
    /\ call[p].op = "enhance" /\ call[p].pc = "returned"
    /\ Has(call[p].trace, "scan") /\ call[p].detection = NoDetection

\* C3: in ruleOnly mode enhance issues no request, does not consult the detector and
\* returns the rule-based prompt with wasAiEnhanced false, whatever the backends' state.
C3_RuleOnlyIsOffline ==
  \A p \in Procs :
    LET c == call[p]
    IN  (c.op = "enhance" /\ c.mode = "ruleOnly")
          => /\ c.pc = "returned"
             /\ c.trace = <<>>
             /\ c.result.prompt = c.fallback
             /\ c.result.wasAiEnhanced = FALSE

\* a ruleOnly enhance returned while the detector holds a backend that can enhance
C3_Witness ==
  \E p \in Procs :
    /\ call[p].op = "enhance" /\ call[p].mode = "ruleOnly" /\ call[p].pc = "returned"
    /\ cachedResult.canEnhance

C5_EveryRequestHasTimeout ==
  \A p \in Procs :
    (call[p].op = "enhance" /\ call[p].pc \in {"probe", "models", "gen"}) => call[p].timer

\* C6: a checkOllama made inside the 60 s window after an earlier check stored its
\* result, with no cache clear between them, issues no reachability probe.
C6_SecondCheckServedFromCache ==
  \A p \in Procs :
    ~ /\ call[p].pc = "probe"
      /\ ollamaAvailable # NULL
      /\ now - StartTime < CACHE_DURATION

\* the step in which invocation p enters LLMDetector.detect
EnteredDetect(p) == ~Has(call[p].trace, "detect") /\ Has(call'[p].trace, "detect")

\* the detect entered in this step returned the cached result and probed nothing
ServedFromCache(p) ==
  /\ ~Has(call'[p].trace, "scan")
  /\ call'[p].detection = cachedResult
  /\ UNCHANGED detectorVars

\* C7, as claimed: a detect without forceRefresh entered less than 60000 ms after the
\* cached result was stored, with no clearCache since, is served from the cache.
C7_CachedSinceStored ==
  [][\A p \in Procs :
       (/\ EnteredDetect(p)
        /\ ~call'[p].force
        /\ detStoredAt # -1
        /\ now < detStoredAt + CACHE_DURATION) => ServedFromCache(p)]_vars

\* C7, amended: a detect without forceRefresh entered less than 60000 ms after the
\* detect call whose result is cached began, with no clearCache since, returns the
\* identical cached result and performs no detection probe.
C7_CachedSinceCallBegan ==
  [][\A p \in Procs :
       (/\ EnteredDetect(p)
        /\ ~call'[p].force
        /\ detStoredStart # -1
        /\ now < detStoredStart + CACHE_DURATION) => ServedFromCache(p)]_vars

\* a detect was served from the cache some time after the entry was stored
C7_Witness ==
  /\ call["status"].op = "detect" /\ call["status"].pc = "returned"
  /\ call["status"].trace = <<"detect">>
  /\ call["status"].detection = cachedResult
  /\ cachedResult.provider = "claude-code"
  /\ detStoredStart < detStoredAt /\ detStoredAt < now

\* C8: detect re-runs detection when the cached entry is 60000 ms old or older, when
\* the cache is empty or was cleared since the entry was stored, or when forceRefresh
\* is set; and a change of the settings leaves both caches in their initial state
\* within the listener's own step.
C8_CacheInvalidation ==
  [][/\ \A p \in Procs :
          (/\ EnteredDetect(p)
           /\ \/ call'[p].force
              \/ detStoredAt = -1
              \/ now - detStoredAt >= CACHE_DURATION) => Has(call'[p].trace, "scan")
     /\ config' # config
          => /\ cachedResult' = NoDetection /\ lastCheck' = 0
             /\ ollamaAvailable' = NULL /\ ollamaModels' = <<>>]_vars

\* after a settings change, a detect found an expired entry and is probing again
C8_Witness ==
  /\ config # DefaultConfig
  /\ call["status"].pc = "exec" /\ ~call["status"].force
  /\ cachedResult # NoDetection
  /\ call["status"].detNow - detStoredAt >= CACHE_DURATION

\* C9: in auto mode the probe comes first; a reachable local backend that reported at
\* least one model gets the generation call and the detector is not consulted; the
\* detector is consulted only when the backend is unreachable or reported no model;
\* a detected backend without canEnhance gets no generation call and the rule-based
\* prompt is returned.
C9_FallbackChainOrdered ==
  \A p \in Procs :
    LET c == call[p]
    IN  (c.op = "enhance" /\ c.mode = "auto")
          => /\ c.trace # <<>> /\ c.trace[1] = "probe"
             /\ c.reported > 0
                  => /\ ~Has(c.trace, "detect")
                     /\ Has(c.trace, "gen") /\ c.target = "ollama" /\ c.via = "local"
             /\ Has(c.trace, "detect") => c.reported <= 0
             /\ (c.pc = "returned" /\ Has(c.trace, "detect") /\ ~c.detection.canEnhance)
                  => /\ ~Has(c.trace, "gen")
                     /\ c.result = RuleBased(c.fallback)

\* the generation request an invocation has issued
IssuedRequest(c) == IF c.pc = "gen" THEN c.target ELSE "none"

\* the detected providers enhanceWithProvider delegates for
DelegatingProviders == {"cursor", "claude-code", "continue", "cody"}

\* the step in which enhance delegates for the detected backend
Delegates(p) ==
  call[p].op = "enhance" /\ call[p].via = "none" /\ call'[p].via = "detected"

Started(p) == call[p].pc = "idle" /\ call'[p].op = "enhance"

\* the invocation started in this step is over: no request, the rule-based result
ReturnedRuleBasedAtOnce(p) ==
  /\ call'[p].pc = "returned"
  /\ call'[p].trace = <<>>
  /\ call'[p].result = RuleBased(call'[p].fallback)

\* C11: in manual mode with a provider other than ollama and an empty API key,
\* enhance returns the rule-based prompt, wasAiEnhanced false, and issues no request.
C11_MissingKeyShortCircuits ==
  [][\A p \in Procs :
       (/\ Started(p)
        /\ config.enhancementMode = "manual"
        /\ config.manualProvider # "ollama"
        /\ config.apiKey = <<>>) => ReturnedRuleBasedAtOnce(p)]_vars

\* manual mode, Anthropic configured, no key: returned without a request
C11_Witness ==
  \E p \in Procs :
    /\ call[p].op = "enhance" /\ call[p].pc = "returned" /\ call[p].trace = <<>>
    /\ call[p].mode = "manual" /\ call[p].provider = "anthropic"
    /\ config.apiKey = <<>>
    /\ call[p].result.prompt = Str_Fix

\* C12: in manual mode with a provider outside ollama, anthropic, openai, enhance
\* issues no request and returns the rule-based prompt, with or without an API key;
\* the error raised at the dispatch point does not reach the caller.
C12_UnknownProviderFallsBack ==
  [][\A p \in Procs :
       (/\ Started(p)
        /\ config.enhancementMode = "manual"
        /\ config.manualProvider \notin {"ollama", "anthropic", "openai"})
         => ReturnedRuleBasedAtOnce(p)]_vars

\* manual mode, an unknown provider and a key: the switch raised, enhance returned
C12_Witness ==
  \E p \in Procs :
    /\ call[p].op = "enhance" /\ call[p].pc = "returned" /\ call[p].trace = <<>>
    /\ call[p].mode = "manual" /\ call[p].provider = "unknown"
    /\ config.apiKey # <<>>

\* C13: an invocation of enhance issues at most one generation request; once that
\* request has settled none is in flight, and once it has failed the invocation has
\* returned the rule-based result.
C13_NoRetries ==
  \A p \in Procs :
    LET c == call[p]
    IN  c.op = "enhance"
          => /\ Count(c.trace, "gen") <= 1
             /\ c.resp # NoResponse => (c.pc = "returned" /\ Count(c.trace, "gen") = 1)
             /\ c.resp.kind # "json" /\ c.resp # NoResponse
                  => c.result = RuleBased(c.fallback)

\* the local generation call failed while the detector knew a backend that can
\* enhance, and enhance returned
C13_Witness ==
  \E p \in Procs :
    /\ call[p].op = "enhance" /\ call[p].pc = "returned"
    /\ call[p].via = "local" /\ call[p].resp.kind = "neterr"
    /\ cachedResult.canEnhance

\* C14: for each provider, a generation response with 2xx status and a valid JSON
\* body from which no text can be extracted (the container or the field is missing,
\* or the text is empty) makes enhance return the raw userInput as the prompt.
C14_EmptyExtractionYieldsUserInput ==
  \A p \in Procs :
    LET c == call[p]
    IN  (/\ c.op = "enhance"
         /\ c.resp.kind = "json"
         /\ c.resp.shape \in {"nocontainer", "nofield"} \/ c.resp.text = <<>>)
          => /\ c.pc = "returned"
             /\ c.result.prompt = c.userInput

\* ------------------------------------------------------------ RuleEngine
\* The texts of the rule engine are strings; SubSeq, Len and \o work on them as
\* on sequences of characters.
Chr(s, i) == SubSeq(s, i, i)

\* String.prototype.includes
Includes(s, k) == \E i \in 0..(Len(s) - Len(k)) : SubSeq(s, i + 1, i + Len(k)) = k

\* String.prototype.toLowerCase, character by character (the two halves in turn)
RECURSIVE ToLowerCase(_)
ToLowerCase(s) ==
  IF Len(s) = 0 THEN ""
  ELSE IF Len(s) = 1 THEN ToLower(s)
  ELSE ToLowerCase(SubSeq(s, 1, Len(s) \div 2))
         \o ToLowerCase(SubSeq(s, Len(s) \div 2 + 1, Len(s)))

\* INTENT_KEYWORDS, in the order Object.entries enumerates it
INTENT_KEYWORDS ==
  << [intent |-> "fix", keywords |->
        <<"fix", "bug", "error", "broken", "not work", "doesnt work", "doesn't work",
          "fail", "crash", "issue", "problem", "wrong", "debug", "repair", "solve">>],
     [intent |-> "add", keywords |->
        <<"add", "create", "new", "implement", "make", "build", "write", "generate",
          "insert">>],
     [intent |-> "change", keywords |->
        <<"change", "update", "modify", "edit", "refactor", "rename", "move", "replace",
          "convert", "transform">>],
     [intent |-> "explain", keywords |->
        <<"explain", "what", "how", "why", "understand", "mean", "does this", "tell me",
          "describe", "clarify">>],
     [intent |-> "test", keywords |->
        <<"test", "testing", "unit test", "spec", "coverage", "mock", "assert">>],
     [intent |-> "review", keywords |->
        <<"review", "check", "audit", "inspect", "analyze", "evaluate", "assess">>],
     [intent |-> "improve", keywords |->
        <<"improve", "optimize", "faster", "better", "performance", "speed", "efficient",
          "enhance", "upgrade", "clean">>],
     [intent |-> "document", keywords |->
        <<"document", "docs", "readme", "comment", "jsdoc", "docstring",
          "documentation">>] >>

\* the inner loop of detectIntent: score += keyword.length for each keyword included
RECURSIVE KeywordScore(_, _, _)
KeywordScore(lowerInput, keywords, k) ==
  IF k > Len(keywords) THEN 0
  ELSE (IF Includes(lowerInput, keywords[k]) THEN Len(keywords[k]) ELSE 0)
         + KeywordScore(lowerInput, keywords, k + 1)

\* a detectIntent whose comparison is >=: the last of the tied intents wins
RECURSIVE DetectIntentLoop_LastWins(_, _, _, _)
DetectIntentLoop_LastWins(lowerInput, i, bestMatch, highestScore) ==
  IF i > Len(INTENT_KEYWORDS) THEN bestMatch
  ELSE LET score == KeywordScore(lowerInput, INTENT_KEYWORDS[i].keywords, 1)
       IN  IF score >= highestScore /\ score > 0
           THEN DetectIntentLoop_LastWins(lowerInput, i + 1, INTENT_KEYWORDS[i].intent, score)
           ELSE DetectIntentLoop_LastWins(lowerInput, i + 1, bestMatch, highestScore)

\* the outer loop of detectIntent from entry i on
RECURSIVE DetectIntentLoop(_, _, _, _)
DetectIntentLoop(lowerInput, i, bestMatch, highestScore) ==
  IF i > Len(INTENT_KEYWORDS) THEN bestMatch
  ELSE LET score == KeywordScore(lowerInput, INTENT_KEYWORDS[i].keywords, 1)
       IN  IF score > highestScore
           THEN DetectIntentLoop(lowerInput, i + 1, INTENT_KEYWORDS[i].intent, score)
           ELSE DetectIntentLoop(lowerInput, i + 1, bestMatch, highestScore)

\* RuleEngine.detectIntent
DetectIntent(input) == DetectIntentLoop(ToLowerCase(input), 1, "fix", 0)

\* WORD_EXPANSIONS, in declaration order
WORD_EXPANSIONS ==
  << <<"fix", "fix and debug">>,
     <<"broken", "not working correctly">>,
     <<"slow", "has performance issues and runs slowly">>,
     <<"fast", "optimized for better performance">>,
     <<"work", "function correctly">>,
     <<"not work", "is not functioning as expected">>,
     <<"doesnt work", "is not functioning as expected">>,
     <<"doesn't work", "is not functioning as expected">>,
     <<"bad", "poorly structured or inefficient">>,
     <<"good", "well-structured and efficient">>,
     <<"ugly", "poorly formatted and hard to read">>,
     <<"clean", "well-organized and readable">>,
     <<"messy", "disorganized and hard to maintain">>,
     <<"make", "implement">>,
     <<"do", "implement">>,
     <<"want", "need to">>,
     <<"need", "require">>,
     <<"btn", "button">>,
     <<"func", "function">>,
     <<"var", "variable">>,
     <<"arr", "array">>,
     <<"obj", "object">>,
     <<"str", "string">>,
     <<"num", "number">>,
     <<"bool", "boolean">>,
     <<"db", "database">>,
     <<"api", "API endpoint">>,
     <<"auth", "authentication">>,
     <<"err", "error">>,
     <<"msg", "message">>,
     <<"req", "request">>,
     <<"res", "response">>,
     <<"param", "parameter">>,
     <<"arg", "argument">>,
     <<"props", "properties">>,
     <<"config", "configuration">> >>

\* where entry i stands after .sort((a, b) => b[0].length - a[0].length): longer
\* keys first, and the sort keeps the declaration order of keys of equal length
SortedPosition(i) ==
  1 + Cardinality({ j \in 1..Len(WORD_EXPANSIONS) :
        \/ Len(WORD_EXPANSIONS[j][1]) > Len(WORD_EXPANSIONS[i][1])
        \/ Len(WORD_EXPANSIONS[j][1]) = Len(WORD_EXPANSIONS[i][1]) /\ j < i })

\* sortedExpansions
SortedExpansions ==
  [r \in 1..Len(WORD_EXPANSIONS) |->
     WORD_EXPANSIONS[CHOOSE i \in 1..Len(WORD_EXPANSIONS) : SortedPosition(i) = r]]

Digits == {"0", "1", "2", "3", "4", "5", "6", "7", "8", "9"}
IsUpperLetter(c) == \E i \in 1..26 : Upper[i] = c
IsLowerLetter(c) == \E i \in 1..26 : Lower[i] = c
IsLetter(c) == IsUpperLetter(c) \/ IsLowerLetter(c)

\* \w of a regular expression without the u flag: [A-Za-z0-9_]
IsWordChar(c) == IsLetter(c) \/ c \in Digits \/ c = "_"
IsWordAt(s, i) == i >= 1 /\ i <= Len(s) /\ IsWordChar(Chr(s, i))

\* \b in front of position i (1..Len(s)+1)
Boundary(s, i) == IsWordAt(s, i - 1) # IsWordAt(s, i)

\* /\bword\b/i matches at position i of s
MatchWordAt(s, i, word) ==
  /\ i + Len(word) - 1 <= Len(s)
  /\ ToLowerCase(SubSeq(s, i, i + Len(word) - 1)) = ToLowerCase(word)
  /\ Boundary(s, i)
  /\ Boundary(s, i + Len(word))

\* the least element of a non-empty set of positions
Least(S) == CHOOSE i \in S : \A j \in S : i <= j

\* s.replace(/\bword\b/gi, expansion), from position i on: the
\* next match is the leftmost one at or after i, and the search resumes behind it
RECURSIVE ReplaceWord(_, _, _, _)
ReplaceWord(s, i, word, expansion) ==
  LET matches == { j \in i..Len(s) : MatchWordAt(s, j, word) }
  IN  IF matches = {} THEN SubSeq(s, i, Len(s))
      ELSE SubSeq(s, i, Least(matches) - 1) \o expansion
             \o ReplaceWord(s, Least(matches) + Len(word), word, expansion)

\* the loop of expandWords from the k-th sorted entry on
RECURSIVE ExpandWordsLoop(_, _)
ExpandWordsLoop(result, k) ==
  IF k > Len(SortedExpansions) \/ Len(result) < 0 THEN result
  ELSE ExpandWordsLoop(ReplaceWord(result, 1, SortedExpansions[k][1], SortedExpansions[k][2]),
                       k + 1)

\* RuleEngine.expandWords
ExpandWords(input) == ExpandWordsLoop(input, 1)

\* ---------------------------------------------- RuleEngine: calls and inputs
\* words the typed input is made of
DetectWords ==
  {"fix", "add", "bug", "new", "what", "Test", "mock", "docs", "why", "HOW",
   "check", "clean", "xyz", ""}

\* the texts handed to detectIntent
DetectInputs == {"", "Testing the spec"} \cup { a \o " " \o b : a, b \in DetectWords }

\* the texts handed to expandWords: every key alone, and phrases around keys
ExpandInputs ==
  { WORD_EXPANSIONS[i][1] : i \in 1..Len(WORD_EXPANSIONS) }
    \cup {"", "btn", "BTN", "subtle", "button", "my btn is broken", "the Api err!",
          "do_it", "do-it", "working", "it not work", "It doesn't work here",
          "I want a fast db", "need 2 args", "obtain debug", "fix fix"}

\* the variables a call of a RuleEngine method leaves alone
engineVars == <<hostVars, enhancerVars, detectorVars, call>>

\* ruleEngine.detectIntent(input) is called
DetectIntentCall(input) ==
  /\ rule.op = "none"
  /\ rule' = [op |-> "detectIntent", input |-> input, intent |-> DetectIntent(input)]
  /\ UNCHANGED engineVars

\* ruleEngine.expandWords(input) is called
ExpandWordsCall(input) ==
  /\ rule.op = "none"
  /\ rule' = [op |-> "expandWords", input |-> input, output |-> ExpandWords(input)]
  /\ UNCHANGED engineVars

\* ------------------------------------------- RuleEngine.improveStructure
\* String.prototype.toUpperCase on one character
ToUpper(c) ==
  IF \E i \in 1..26 : Lower[i] = c
  THEN Upper[CHOOSE i \in 1..26 : Lower[i] = c]
  ELSE c

\* . of a regular expression: any character but a line terminator
IsLineTerminator(c) == c = "\n"
IsDotChar(c) == ~IsLineTerminator(c)

\* the character classes of STRUCTURE_PATTERNS: \w, \s and .
InClass(c, class) ==
  IF class = "w" THEN IsWordChar(c)
  ELSE IF class = "s" THEN IsSpace(c)
  ELSE IsDotChar(c)

\* a greedy class+ from position i on: the position of the last character of the
\* longest run of characters of the class that starts at i (i - 1 when there is none)
RunEnd(s, i, class) ==
  CHOOSE j \in (i - 1)..Len(s) :
    /\ \A k \in i..j : InClass(Chr(s, k), class)
    /\ j = Len(s) \/ ~InClass(Chr(s, j + 1), class)

\* word occurs at position i of s, compared case-insensitively
LiteralAt(s, i, word) ==
  /\ i + Len(word) - 1 <= Len(s)
  /\ ToLowerCase(SubSeq(s, i, i + Len(word) - 1)) = word

\* /(\w+)\s+not\s+work/i tried at position i: where the pieces of the match end
\* (word the group, gap the first \s+, last the end of the match); last = 0 when
\* there is no match at i
NotWorkAt(s, i) ==
  LET word == RunEnd(s, i, "w")
      gap  == RunEnd(s, word + 1, "s")
      gap2 == RunEnd(s, gap + 4, "s")
  IN  IF /\ word >= i
         /\ gap > word
         /\ LiteralAt(s, gap + 1, "not")
         /\ gap2 > gap + 3
         /\ LiteralAt(s, gap2 + 1, "work")
      THEN [word |-> word, last |-> gap2 + 4]
      ELSE [word |-> word, last |-> 0]

\* .replace(/(\w+)\s+not\s+work/gi, '$1 is not working correctly'), from position i on
RECURSIVE ReplaceNotWork(_, _)
ReplaceNotWork(s, i) ==
  LET starts == { j \in i..Len(s) : NotWorkAt(s, j).last > 0 }
  IN  IF starts = {} THEN SubSeq(s, i, Len(s))
      ELSE LET j == Least(starts)
               m == NotWorkAt(s, j)
           IN  SubSeq(s, i, j - 1) \o SubSeq(s, j, m.word) \o " is not working correctly"
                 \o ReplaceNotWork(s, m.last + 1)

\* .replace(/^word\s+(.+)/i, prefix + '$1'): \s+ takes the longest run of white
\* space that still leaves .+ a character to match
ReplaceLeading(s, word, prefix) ==
  LET n     == Len(word)
      gap   == RunEnd(s, n + 1, "s")
      stops == { w \in (n + 1)..gap : w + 1 <= Len(s) /\ IsDotChar(Chr(s, w + 1)) }
  IN  IF LiteralAt(s, 1, word) /\ stops # {}
      THEN LET w == CHOOSE x \in stops : \A y \in stops : y <= x
               e == RunEnd(s, w + 1, ".")
           IN  prefix \o SubSeq(s, w + 1, e) \o SubSeq(s, e + 1, Len(s))
      ELSE s

\* .replace(/^how\s+(\w+)$/i, 'How does $1 work')
ReplaceHow(s) ==
  LET gap  == RunEnd(s, 4, "s")
      word == RunEnd(s, gap + 1, "w")
  IN  IF LiteralAt(s, 1, "how") /\ gap >= 4 /\ word > gap /\ word = Len(s)
      THEN "How does " \o SubSeq(s, gap + 1, word) \o " work"
      ELSE s

\* .replace(/([a-zA-Z])$/i, '$1.')
AppendPeriod(s) ==
  IF Len(s) > 0 /\ IsLetter(Chr(s, Len(s))) THEN s \o "." ELSE s

\* result.charAt(0).toUpperCase() + result.slice(1)
Capitalize(s) ==
  IF Len(s) = 0 THEN "" ELSE ToUpper(Chr(s, 1)) \o SubSeq(s, 2, Len(s))

\* STRUCTURE_PATTERNS applied in order, each to the result of the one before
ApplyStructurePatterns(input) ==
  AppendPeriod(
    ReplaceHow(
      ReplaceLeading(
        ReplaceLeading(ReplaceNotWork(input, 1), "make", "Implement "),
        "want", "I need ")))

\* an improveStructure that leaves the first character as it is
ImproveStructure_NoCapital(input) == ApplyStructurePatterns(input)

\* RuleEngine.improveStructure
ImproveStructure(input) == Capitalize(ApplyStructurePatterns(input))

\* the texts handed to improveStructure
StructureInputs ==
  {"", "button not work", "the Button  NOT WORK now", "a not work and b not work",
   "make a list", "Make  it fast", "make ", "make  ", "make\nit", "makefile",
   "want more tests", "want x\ny", "how promises", "how it works", "HOW x",
   "how", "fix the bug", "fix the bug.", "why?", "done!", "upgrade to v2",
   "2 items fail", "see (below)", " leading space", "x", "X", "7", "ok\n",
   "not work", "it not working"}

\* ruleEngine.improveStructure(input) is called
ImproveStructureCall(input) ==
  /\ rule.op = "none"
  /\ rule' = [op |-> "improveStructure", input |-> input,
              output |-> ImproveStructure(input)]
  /\ UNCHANGED engineVars

\* ------------------------------------------------------ RuleEngine.enhance
\* PROMPT_TEMPLATES, in declaration order
PROMPT_TEMPLATES ==
  << [id |-> "fix-bug", intent |-> "fix",
      template |->
        "Fix the bug in this code. The issue is: {issue}\n\n{context}\n\nPlease:\n1. Identify the root cause of the bug\n2. Provide a corrected implementation\n3. Explain what was wrong and why the fix works"],
     [id |-> "fix-error", intent |-> "fix",
      template |->
        "I'm getting this error: {error}\n\n{context}\n\nPlease help me:\n1. Understand what's causing this error\n2. Fix the code to resolve it\n3. Prevent similar errors in the future"],
     [id |-> "add-feature", intent |-> "add",
      template |->
        "Add the following feature: {feature}\n\n{context}\n\nRequirements:\n- Follow existing code patterns and conventions\n- Include proper error handling\n- Make it production-ready"],
     [id |-> "add-function", intent |-> "add",
      template |->
        "Create a function that: {description}\n\n{context}\n\nPlease:\n- Use appropriate parameter types\n- Include input validation\n- Handle edge cases\n- Add JSDoc/docstring comments"],
     [id |-> "change-refactor", intent |-> "change",
      template |->
        "Refactor this code to: {goal}\n\n{context}\n\nGuidelines:\n- Maintain the same functionality\n- Improve code quality and readability\n- Follow best practices for this language"],
     [id |-> "change-update", intent |-> "change",
      template |->
        "Update this code: {changes}\n\n{context}\n\nPlease ensure:\n- Backward compatibility where possible\n- All related code is updated consistently\n- No functionality is broken"],
     [id |-> "explain-code", intent |-> "explain",
      template |->
        "Explain this code in detail:\n\n{context}\n\nPlease cover:\n1. What this code does (high-level overview)\n2. How it works (step-by-step breakdown)\n3. Key concepts or patterns used\n4. Any potential issues or improvements"],
     [id |-> "explain-simple", intent |-> "explain",
      template |->
        "Explain this code in simple terms that a beginner can understand:\n\n{context}\n\nUse:\n- Simple language, avoid jargon\n- Analogies where helpful\n- Step-by-step breakdown"],
     [id |-> "test-unit", intent |-> "test",
      template |->
        "Write unit tests for this code:\n\n{context}\n\nInclude tests for:\n- Normal/expected inputs\n- Edge cases\n- Error conditions\n- Boundary values\n\nUse the testing framework appropriate for this language/project."],
     [id |-> "test-specific", intent |-> "test",
      template |->
        "Write tests for the following scenario: {scenario}\n\n{context}\n\nMake sure to cover:\n- The main scenario\n- Related edge cases\n- Failure modes"],
     [id |-> "review-code", intent |-> "review",
      template |->
        "Review this code for:\n\n{context}\n\nPlease check for:\n1. Bugs or logic errors\n2. Security vulnerabilities\n3. Performance issues\n4. Code style and best practices\n5. Suggestions for improvement"],
     [id |-> "review-security", intent |-> "review",
      template |->
        "Perform a security review of this code:\n\n{context}\n\nCheck for:\n- Input validation issues\n- Injection vulnerabilities (SQL, XSS, etc.)\n- Authentication/authorization flaws\n- Data exposure risks\n- Other OWASP Top 10 vulnerabilities"],
     [id |-> "improve-performance", intent |-> "improve",
      template |->
        "Optimize this code for better performance:\n\n{context}\n\nFocus on:\n- Reducing time complexity\n- Minimizing memory usage\n- Eliminating unnecessary operations\n- Using more efficient algorithms/data structures"],
     [id |-> "improve-readability", intent |-> "improve",
      template |->
        "Improve the readability of this code:\n\n{context}\n\nPlease:\n- Use clearer variable/function names\n- Break down complex logic\n- Add helpful comments where needed\n- Follow language conventions"],
     [id |-> "document-code", intent |-> "document",
      template |->
        "Add documentation to this code:\n\n{context}\n\nInclude:\n- Function/method documentation (JSDoc, docstrings, etc.)\n- Inline comments for complex logic\n- Usage examples where helpful"],
     [id |-> "document-readme", intent |-> "document",
      template |->
        "Write a README for this code/project:\n\n{context}\n\nInclude:\n- Project description\n- Installation instructions\n- Usage examples\n- API documentation (if applicable)\n- Contributing guidelines"] >>

\* getTemplatesByIntent(intent): the positions of the templates of that intent
TemplatesByIntent(intent) ==
  SelectSeq([i \in 1..Len(PROMPT_TEMPLATES) |-> i],
            LAMBDA i : PROMPT_TEMPLATES[i].intent = intent)

\* TECHNICAL_ENHANCEMENTS, in declaration order
TECHNICAL_ENHANCEMENTS ==
  << [keywords |-> <<"button", "click", "press">>,
      technicalTerms |-> <<"onClick event", "event handler", "user interaction">>],
     [keywords |-> <<"form", "submit", "input">>,
      technicalTerms |-> <<"form validation", "input handling", "form state">>],
     [keywords |-> <<"login", "signin", "sign in">>,
      technicalTerms |-> <<"authentication flow", "credentials", "session management">>],
     [keywords |-> <<"save", "store", "persist">>,
      technicalTerms |-> <<"storage", "database operation", "state management">>],
     [keywords |-> <<"load", "fetch", "get data">>,
      technicalTerms |-> <<"API call", "async operation", "data loading">>],
     [keywords |-> <<"show", "display", "render", "visible">>,
      technicalTerms |-> <<"component rendering", "visibility", "display logic">>],
     [keywords |-> <<"hide", "invisible", "remove">>,
      technicalTerms |-> <<"conditional rendering", "display state", "DOM manipulation">>],
     [keywords |-> <<"list", "array", "items", "loop">>,
      technicalTerms |-> <<"iteration", "array methods", "list rendering">>],
     [keywords |-> <<"error", "catch", "fail", "exception">>,
      technicalTerms |-> <<"try-catch", "error boundary", "exception handling">>],
     [keywords |-> <<"async", "await", "promise", "wait">>,
      technicalTerms |-> <<"Promise", "async/await", "asynchronous flow">>],
     [keywords |-> <<"style", "css", "color", "layout">>,
      technicalTerms |-> <<"CSS", "styling", "layout">>],
     [keywords |-> <<"route", "page", "navigate", "url">>,
      technicalTerms |-> <<"routing", "navigation", "URL handling">>],
     [keywords |-> <<"state", "update", "change value">>,
      technicalTerms |-> <<"state update", "reactivity", "state management">>],
     [keywords |-> <<"type", "typescript", "interface">>,
      technicalTerms |-> <<"TypeScript", "type safety", "interface definition">>] >>

\* the technical terms of the clusters from m on that have a keyword included in
\* lowerInput, in cluster order (termsAdded.push(...mapping.technicalTerms))
RECURSIVE MatchedTerms(_, _)
MatchedTerms(lowerInput, m) ==
  IF m > Len(TECHNICAL_ENHANCEMENTS) THEN <<>>
  ELSE LET mapping == TECHNICAL_ENHANCEMENTS[m]
           hasKeyword == \E k \in 1..Len(mapping.keywords) :
                           Includes(lowerInput, mapping.keywords[k])
       IN  (IF hasKeyword THEN mapping.technicalTerms ELSE <<>>)
             \o MatchedTerms(lowerInput, m + 1)

\* [...new Set(terms)]: every term once, at the place of its first occurrence
UniqueTerms(terms) ==
  SelectSeq([i \in 1..Len(terms) |-> IF \E j \in 1..(i - 1) : terms[j] = terms[i]
                                     THEN "" ELSE terms[i]],
            LAMBDA t : t # "")

\* an addTechnicalTerms that keeps the duplicates
AddTechnicalTerms_WithDuplicates(input) == MatchedTerms(ToLowerCase(input), 1)

\* RuleEngine.addTechnicalTerms(input).termsAdded
AddTechnicalTerms(input) == UniqueTerms(MatchedTerms(ToLowerCase(input), 1))

\* Array.prototype.join
RECURSIVE Join(_, _)
Join(parts, sep) ==
  IF Len(parts) = 0 THEN ""
  ELSE IF Len(parts) = 1 THEN parts[1]
  ELSE parts[1] \o sep \o Join(Tail(parts), sep)

\* the grave accent, cut from a text of two characters, and the code fence made of it
BACKTICK == SubSeq("`'", 1, 1)
FENCE == BACKTICK \o BACKTICK \o BACKTICK

\* a formatContext that renders every piece of context it is given, whatever the flags
FormatContext_IgnoringFlags(request) ==
  LET ctx == request.context
      file == IF ctx.fileName # ""
              THEN <<"**File:** " \o ctx.fileName>>
                     \o (IF ctx.language # ""
                         THEN <<"**Language:** " \o ctx.language>> ELSE <<>>)
              ELSE <<>>
      selection == IF ctx.selectedCode # ""
                   THEN <<"\n**Code:**\n" \o FENCE \o ctx.language \o "\n"
                            \o ctx.selectedCode \o "\n" \o FENCE>>
                   ELSE <<>>
      project == IF ctx.projectStructure # ""
                 THEN <<"\n**Project Structure:**\n" \o ctx.projectStructure>>
                 ELSE <<>>
      git == IF ctx.gitStatus # ""
             THEN <<"\n**Git Status:**\n" \o ctx.gitStatus>>
             ELSE <<>>
  IN  Join(file \o selection \o project \o git, "\n")

\* RuleEngine.formatContext; a field of request.context that is absent is "" here, as
\* falsy as the empty string is
FormatContext(request) ==
  LET ctx == request.context
      inc == request.includeContext
      file == IF inc.file /\ ctx.fileName # ""
              THEN <<"**File:** " \o ctx.fileName>>
                     \o (IF ctx.language # ""
                         THEN <<"**Language:** " \o ctx.language>> ELSE <<>>)
              ELSE <<>>
      selection == IF inc.selection /\ ctx.selectedCode # ""
                   THEN <<"\n**Code:**\n" \o FENCE \o ctx.language \o "\n"
                            \o ctx.selectedCode \o "\n" \o FENCE>>
                   ELSE <<>>
      project == IF inc.project /\ ctx.projectStructure # ""
                 THEN <<"\n**Project Structure:**\n" \o ctx.projectStructure>>
                 ELSE <<>>
      git == IF inc.git /\ ctx.gitStatus # ""
             THEN <<"\n**Git Status:**\n" \o ctx.gitStatus>>
             ELSE <<>>
  IN  Join(file \o selection \o project \o git, "\n")

\* the first position of pattern in s, 0 when there is none (String.prototype.indexOf + 1)
IndexOf(s, pattern) ==
  LET at == { i \in 1..(Len(s) - Len(pattern) + 1) :
                SubSeq(s, i, i + Len(pattern) - 1) = pattern }
  IN  IF at = {} THEN 0 ELSE Least(at)

\* GetSubstitution for a string pattern: in the replacement text a dollar sign
\* followed by a dollar sign is one dollar sign, followed by an ampersand the
\* matched text, followed by a backtick the text in front of the match, followed by
\* an apostrophe the text behind it; every other dollar sign stands for itself
\* (there are no capture groups)
RECURSIVE GetSubstitution(_, _, _, _)
GetSubstitution(replacement, matched, before, after) ==
  LET d == IndexOf(replacement, "$")
      c == Chr(replacement, d + 1)
      rest == SubSeq(replacement, d + 2, Len(replacement))
  IN  IF d = 0 THEN replacement
      ELSE IF c = "$" THEN SubSeq(replacement, 1, d) \o GetSubstitution(rest, matched, before, after)
      ELSE IF c = "&" THEN SubSeq(replacement, 1, d - 1) \o matched
                             \o GetSubstitution(rest, matched, before, after)
      ELSE IF c = BACKTICK THEN SubSeq(replacement, 1, d - 1) \o before
                             \o GetSubstitution(rest, matched, before, after)
      ELSE IF c = "'" THEN SubSeq(replacement, 1, d - 1) \o after
                             \o GetSubstitution(rest, matched, before, after)
      ELSE SubSeq(replacement, 1, d)
             \o GetSubstitution(SubSeq(replacement, d + 1, Len(replacement)),
                                matched, before, after)

\* a replace that inserts the replacement text as it stands
ReplaceFirst_Literal(s, pattern, replacement) ==
  LET i == IndexOf(s, pattern)
  IN  IF i = 0 THEN s
      ELSE SubSeq(s, 1, i - 1) \o replacement \o SubSeq(s, i + Len(pattern), Len(s))

\* String.prototype.replace(pattern, replacement) with a string pattern: the first
\* occurrence only
ReplaceFirst(s, pattern, replacement) ==
  LET i == IndexOf(s, pattern)
      before == SubSeq(s, 1, i - 1)
      after == SubSeq(s, i + Len(pattern), Len(s))
  IN  IF i = 0 THEN s
      ELSE before \o GetSubstitution(replacement, pattern, before, after) \o after

\* the placeholders enhance fills with the enhanced description, in the order of
\* its chain of replace calls
CONTENT_PLACEHOLDERS ==
  <<"{issue}", "{error}", "{feature}", "{description}", "{goal}", "{changes}", "{scenario}">>

\* the chain of replace calls from placeholder k on
RECURSIVE FillContent(_, _, _)
FillContent(text, enhanced, k) ==
  IF k > Len(CONTENT_PLACEHOLDERS) \/ Len(text) < 0 THEN text
  ELSE FillContent(ReplaceFirst(text, CONTENT_PLACEHOLDERS[k], enhanced), enhanced, k + 1)

\* template.template.replace('{issue}', enhanced)....replace('{context}', contextStr || '')
FillTemplate(template, enhanced, contextStr) ==
  ReplaceFirst(FillContent(template, enhanced, 1), "{context}", contextStr)

\* the hint line appended when terms were detected
WithTerms(finalPrompt, termsAdded) ==
  IF Len(termsAdded) > 0
  THEN finalPrompt \o "\n\n*Related concepts: " \o Join(termsAdded, ", ") \o "*"
  ELSE finalPrompt

RULE_PREVIEW_LEN == 200

\* a preview cut without the ellipsis
Preview_NoEllipsis(finalPrompt) ==
  IF Len(finalPrompt) > RULE_PREVIEW_LEN
  THEN SubSeq(finalPrompt, 1, RULE_PREVIEW_LEN)
  ELSE finalPrompt

\* finalPrompt.length > 200 ? finalPrompt.substring(0, 200) + '...' : finalPrompt
Preview(finalPrompt) ==
  IF Len(finalPrompt) > RULE_PREVIEW_LEN
  THEN SubSeq(finalPrompt, 1, RULE_PREVIEW_LEN) \o "..."
  ELSE finalPrompt

\* an enhance that takes the last template declared for the intent
RuleEnhance_LastTemplate(request) ==
  LET enhanced == ImproveStructure(ExpandWords(request.userInput))
      termsAdded == AddTechnicalTerms(request.userInput)
      templates == TemplatesByIntent(request.intent)
      contextStr == FormatContext(request)
      filled == IF Len(templates) > 0
                THEN FillTemplate(PROMPT_TEMPLATES[templates[Len(templates)]].template,
                                  enhanced, contextStr)
                ELSE enhanced \o "\n\n" \o contextStr
      finalPrompt == WithTerms(filled, termsAdded)
  IN  [prompt |-> finalPrompt, preview |-> Preview(finalPrompt), wasAiEnhanced |-> FALSE]

\* an enhance that takes the hints from the expanded and restructured description
RuleEnhance_TermsOfEnhanced(request) ==
  LET enhanced == ImproveStructure(ExpandWords(request.userInput))
      termsAdded == AddTechnicalTerms(enhanced)
      templates == TemplatesByIntent(request.intent)
      contextStr == FormatContext(request)
      filled == IF Len(templates) > 0
                THEN FillTemplate(PROMPT_TEMPLATES[templates[1]].template,
                                  enhanced, contextStr)
                ELSE enhanced \o "\n\n" \o contextStr
      finalPrompt == WithTerms(filled, termsAdded)
  IN  [prompt |-> finalPrompt, preview |-> Preview(finalPrompt), wasAiEnhanced |-> FALSE]

\* RuleEngine.enhance(request)
RuleEnhance(request) ==
  LET enhanced == ImproveStructure(ExpandWords(request.userInput))
      termsAdded == AddTechnicalTerms(request.userInput)
      templates == TemplatesByIntent(request.intent)
      contextStr == FormatContext(request)
      filled == IF Len(templates) > 0
                THEN FillTemplate(PROMPT_TEMPLATES[templates[1]].template,
                                  enhanced, contextStr)
                ELSE enhanced \o "\n\n" \o contextStr
      finalPrompt == WithTerms(filled, termsAdded)
  IN  [prompt |-> finalPrompt, preview |-> Preview(finalPrompt), wasAiEnhanced |-> FALSE]

\* the intents a request can name (TaskIntent)
TaskIntents == {"fix", "add", "change", "explain", "test", "review", "improve", "document"}

\* the descriptions handed to enhance
EnhanceInputs ==
  {"", "fix btn", "button not work", "want login form", "make list load fast",
   "why is {context} empty", "use {issue} here", "see {error} and {goal}",
   "cost is $& now", "pay $' fee", "price in $$", "explain this"}

\* request.context: the name and language of the file, the selected code, the
\* project structure and the git status
Contexts ==
  { [fileName |-> "", language |-> "", selectedCode |-> "",
     projectStructure |-> "", gitStatus |-> ""],
    [fileName |-> "app.ts", language |-> "typescript", selectedCode |-> "",
     projectStructure |-> "", gitStatus |-> ""],
    [fileName |-> "app.ts", language |-> "typescript", selectedCode |-> "let x = 1;",
     projectStructure |-> "", gitStatus |-> ""],
    [fileName |-> "", language |-> "", selectedCode |-> "echo $& {issue}",
     projectStructure |-> "src/", gitStatus |-> ""],
    [fileName |-> "app.ts", language |-> "", selectedCode |-> "f(x)",
     projectStructure |-> "src/\n  app.ts", gitStatus |-> "M app.ts"] }

\* request.includeContext: what extension.ts and quickEnhance pass, everything, nothing
IncludeFlags ==
  { [file |-> TRUE, selection |-> TRUE, project |-> FALSE, git |-> FALSE],
    [file |-> TRUE, selection |-> TRUE, project |-> TRUE, git |-> TRUE],
    [file |-> FALSE, selection |-> FALSE, project |-> FALSE, git |-> FALSE] }

PromptRequests ==
  [intent : TaskIntents, userInput : EnhanceInputs, context : Contexts,
   includeContext : IncludeFlags]

\* the requests handed to formatContext: every combination of flags with every
\* combination of present and absent pieces of context
FormatRequests ==
  [intent : {"fix"}, userInput : {""},
   context : [fileName : {"", "app.ts"}, language : {"", "typescript"},
              selectedCode : {"", "let x = 1;"}, projectStructure : {"", "src/"},
              gitStatus : {"", "M app.ts"}],
   includeContext : [file : BOOLEAN, selection : BOOLEAN, project : BOOLEAN,
                     git : BOOLEAN]]

\* ruleEngine.formatContext(request) is called
FormatContextCall(request) ==
  /\ rule.op = "none"
  /\ rule' = [op |-> "formatContext", request |-> request,
              output |-> FormatContext(request)]
  /\ UNCHANGED engineVars

\* the texts handed to addTechnicalTerms
TermInputs ==
  {"", "rename it", "button", "Click the BUTTON", "press button to submit form",
   "save state", "update the state and persist", "Sign In page", "get data",
   "css layout of the list", "await fetch error", "typescript interface",
   "unbuttoned", "hide and show"}

\* ruleEngine.addTechnicalTerms(input) is called
AddTechnicalTermsCall(input) ==
  /\ rule.op = "none"
  /\ rule' = [op |-> "addTechnicalTerms", input |-> input,
              termsAdded |-> AddTechnicalTerms(input)]
  /\ UNCHANGED engineVars

\* ruleEngine.enhance(request) is called
RuleEnhanceCall(request) ==
  /\ rule.op = "none"
  /\ rule' = [op |-> "enhance", request |-> request, result |-> RuleEnhance(request)]
  /\ UNCHANGED engineVars

\* the method returns and its caller goes on with the result
RuleReturn ==
  /\ rule.op # "none"
  /\ rule' = NoRuleCall
  /\ UNCHANGED engineVars

RuleNext ==
  \/ \E input \in DetectInputs : DetectIntentCall(input)
  \/ \E input \in ExpandInputs : ExpandWordsCall(input)
  \/ \E input \in StructureInputs : ImproveStructureCall(input)
  \/ \E request \in FormatRequests : FormatContextCall(request)
  \/ \E input \in TermInputs : AddTechnicalTermsCall(input)
  \/ \E request \in PromptRequests : RuleEnhanceCall(request)
  \/ RuleReturn

RuleSpec == Init /\ [][RuleNext]_vars

\* ------------------------------------------------------- claims C15 - C20
\* the intents in the order detectIntent visits them
IntentOrder == <<"fix", "add", "change", "explain", "test", "review", "improve", "document">>

\* the sum of the lengths of the keywords in the set S
RECURSIVE SumLens(_)
SumLens(S) ==
  IF S = {} THEN 0
  ELSE LET k == CHOOSE k \in S : TRUE IN Len(k) + SumLens(S \ {k})

\* the reference score of an intent: the lengths of its keywords that occur in text
ReferenceScore(text, intent) ==
  LET entry == CHOOSE i \in 1..Len(INTENT_KEYWORDS) : INTENT_KEYWORDS[i].intent = intent
      keywords == INTENT_KEYWORDS[entry].keywords
  IN  SumLens({ keywords[k] : k \in { k \in 1..Len(keywords) : Includes(text, keywords[k]) } })

\* C15: detectIntent returns one of the eight intents, the one whose reference score
\* over the lower-cased input is highest, the earliest in the order fix, add, change,
\* explain, test, review, improve, document among those tied for it, and fix when
\* every score is zero
C15_DetectIntentAgreesWithReference ==
  rule.op = "detectIntent" =>
    LET text == ToLowerCase(rule.input)
        score == [j \in 1..Len(IntentOrder) |-> ReferenceScore(text, IntentOrder[j])]
    IN  /\ \E j \in 1..Len(IntentOrder) :
             /\ rule.intent = IntentOrder[j]
             /\ \A i \in 1..Len(IntentOrder) : score[i] <= score[j]
             /\ \A i \in 1..(j - 1) : score[i] < score[j]
        /\ (\A i \in 1..Len(IntentOrder) : score[i] = 0) => rule.intent = "fix"

\* two intents tie for the highest score and the earlier of them was returned
C15_Witness ==
  /\ rule.op = "detectIntent"
  /\ rule.input = "mock what"
  /\ ReferenceScore(rule.input, "explain") = 4
  /\ ReferenceScore(rule.input, "test") = 4
  /\ rule.intent = "explain"

\* the whole-word occurrences of the keys in the input as it was handed in, longest
\* key first from entry k on; an occurrence inside one already taken is left out
RECURSIVE OriginalMatches(_, _, _)
OriginalMatches(input, k, taken) ==
  IF k > Len(SortedExpansions) \/ Cardinality(taken) < 0 THEN taken
  ELSE LET word == SortedExpansions[k][1]
           covered == UNION { m.at..(m.at + Len(SortedExpansions[m.entry][1]) - 1) :
                              m \in taken }
           here == { i \in 1..Len(input) :
                       /\ MatchWordAt(input, i, word)
                       /\ (i..(i + Len(word) - 1)) \cap covered = {} }
       IN  OriginalMatches(input, k + 1, taken \cup { [at |-> i, entry |-> k] : i \in here })

\* the input from position i on with each of the occurrences replaced by its expansion
RECURSIVE Rebuild(_, _, _)
Rebuild(input, i, matches) ==
  LET ahead == { m \in matches : m.at >= i }
  IN  IF ahead = {} THEN SubSeq(input, i, Len(input))
      ELSE LET m == CHOOSE m \in ahead : \A n \in ahead : m.at <= n.at
           IN  SubSeq(input, i, m.at - 1) \o SortedExpansions[m.entry][2]
                 \o Rebuild(input, m.at + Len(SortedExpansions[m.entry][1]), matches)

\* the expansion in which no replacement sees the text another one produced
ExpandIndependently(input) == Rebuild(input, 1, OriginalMatches(input, 1, {}))

\* C16: the result of expandWords is the input with the whole-word occurrences of the
\* keys that the input itself contains replaced, longest key first; text produced by
\* one expansion is not expanded by another key
C16_ExpansionsIndependent ==
  rule.op = "expandWords" => rule.output = ExpandIndependently(rule.input)

\* the places of the input where some key occurs as a whole word
KeyOccurrences(input) ==
  { i \in 1..Len(input) :
      \E k \in 1..Len(WORD_EXPANSIONS) : MatchWordAt(input, i, WORD_EXPANSIONS[k][1]) }

\* C17: expandWords changes its input only where a key occurs, case-insensitively, as
\* a whole word: an input without such an occurrence is returned as it is, the text in
\* front of the first occurrence is kept, and an input that is exactly a key is
\* returned as the expansion of that key
C17_WholeWordSafe ==
  rule.op = "expandWords" =>
    LET at == KeyOccurrences(rule.input)
    IN  /\ at = {} => rule.output = rule.input
        /\ at # {} => SubSeq(rule.output, 1, Least(at) - 1)
                        = SubSeq(rule.input, 1, Least(at) - 1)
        /\ \A k \in 1..Len(WORD_EXPANSIONS) :
             ToLowerCase(rule.input) = WORD_EXPANSIONS[k][1]
               => rule.output = WORD_EXPANSIONS[k][2]

TerminalPunctuation == {".", "!", "?"}
LastChr(s) == Chr(s, Len(s))

PlaceholderAt(template, i) ==
  LET names == { n \in { CONTENT_PLACEHOLDERS[k] : k \in 1..Len(CONTENT_PLACEHOLDERS) }
                         \cup {"{context}"} :
                   /\ i + Len(n) - 1 <= Len(template)
                   /\ SubSeq(template, i, i + Len(n) - 1) = n }
  IN  IF names = {} THEN "" ELSE CHOOSE n \in names : TRUE

\* the template from position i on with every content placeholder replaced by the
\* enhanced description and {context} by the context block, each inserted as it stands
RECURSIVE LiteralFill(_, _, _, _)
LiteralFill(template, i, enhanced, contextStr) ==
  LET at == { j \in i..Len(template) : PlaceholderAt(template, j) # "" }
  IN  IF at = {} THEN SubSeq(template, i, Len(template))
      ELSE LET j == Least(at)
               name == PlaceholderAt(template, j)
           IN  SubSeq(template, i, j - 1)
                 \o (IF name = "{context}" THEN contextStr ELSE enhanced)
                 \o LiteralFill(template, j + Len(name), enhanced, contextStr)

\* C19: the final prompt of enhance is the first template of the intent with each of
\* its content placeholders replaced by the enhanced description and its {context}
\* placeholder by the rendered context block (the empty string when nothing is
\* rendered), whatever the user input contains, followed by the hint line if any
C19_TemplatePlaceholdersFilled ==
  rule.op = "enhance" /\ Len(TemplatesByIntent(rule.request.intent)) > 0 =>
    rule.result.prompt =
      WithTerms(LiteralFill(PROMPT_TEMPLATES[TemplatesByIntent(rule.request.intent)[1]].template,
                            1,
                            ImproveStructure(ExpandWords(rule.request.userInput)),
                            FormatContext(rule.request)),
                AddTechnicalTerms(rule.request.userInput))

\* C20 as stated: a prompt of more than 200 characters has a preview of 203, the
\* first 200 characters of the prompt followed by "...", that is a prefix of the
\* prompt; a shorter prompt is its own preview
C20_PreviewIsPrefix ==
  rule.op = "enhance" =>
    LET prompt == rule.result.prompt
        preview == rule.result.preview
    IN  IF Len(prompt) > 200
        THEN /\ Len(preview) = 203
             /\ preview = SubSeq(prompt, 1, 200) \o "..."
             /\ preview = SubSeq(prompt, 1, Len(preview))
        ELSE preview = prompt

\* C20: a prompt of more than 200 characters has a preview of 203 characters, the
\* first 200 characters of the prompt followed by "..."; a prompt of at most 200
\* characters is its own preview
C20_PreviewTruncates ==
  rule.op = "enhance" =>
    LET prompt == rule.result.prompt
        preview == rule.result.preview
    IN  IF Len(prompt) > 200
        THEN /\ Len(preview) = 203
             /\ SubSeq(preview, 1, 200) = SubSeq(prompt, 1, 200)
             /\ SubSeq(preview, 201, 203) = "..."
        ELSE preview = prompt

\* enhance returned a prompt of more than 200 characters with its cut preview
C20_Witness ==
  /\ rule.op = "enhance"
  /\ Len(rule.result.prompt) > 200
  /\ Len(rule.result.preview) = 203

\* ------------------------------------------------------- claims C21 - C30
\* a text one character longer than a preview, as the prompts of the templates are
LongText == [i \in 1..(PREVIEW_LEN + 1) |-> "x"]

\* The orchestrator handed a user input and a rule-based prompt of which one or both
\* are longer than a preview (sidebarProvider.ts hands the user input twice).
PreviewNext ==
  \/ \E u \in UserInputs \cup {LongText} : EnhanceStart(u, LongText)
  \/ \E p \in Procs, ok, cursor \in BOOLEAN : ProbeResponse(p, ok, cursor)
  \/ \E p \in Procs, cursor \in BOOLEAN : ProbeAbort(p, cursor)
  \/ \E p \in Procs, models \in ModelLists, cursor \in BOOLEAN :
       ModelsResponse(p, models, cursor)
  \/ \E p \in Procs, claude, continue, cody, copilot \in BOOLEAN :
       ExecResponse(p, claude, continue, cody, copilot)
  \/ \E p \in Procs : DetectRejects(p)
  \/ \E p \in Procs, resp \in Responses(OllamaTexts) : GenResponse(p, resp)
  \/ \E affects \in BOOLEAN, cfg \in OneSettingChanged(config) :
       OnDidChangeConfiguration(affects, cfg)
  \/ \E p \in Procs : Deliver(p)

PreviewSpec == Init /\ [][PreviewNext]_vars

\* the preview of the EnhancedPrompt rule: cut texts carry an ellipsis
EllipsisPreview(prompt) ==
  IF Len(prompt) > PREVIEW_LEN
  THEN SubSeq(prompt, 1, PREVIEW_LEN) \o <<".", ".", ".">>
  ELSE prompt

\* C21: every result of AIEnhancer.enhance carries the preview of the EnhancedPrompt
\* rule, the one RuleEngine.enhance computes for the same prompt: the prompt itself
\* when it has at most 200 characters, its first 200 characters and "..." otherwise
C21_PreviewRuleObeyed ==
  \A p \in Procs :
    call[p].op = "enhance" /\ call[p].pc = "returned"
      => call[p].result.preview = EllipsisPreview(call[p].result.prompt)

\* the heading of each section of the context block, in the order file, selection,
\* project, git
SectionHeadings ==
  <<"**File:** ", "**Code:**", "**Project Structure:**", "**Git Status:**">>

\* section k is to be rendered: its flag is set and its piece of context is present
SectionWanted(request, k) ==
  CASE k = 1 -> request.includeContext.file /\ request.context.fileName # ""
    [] k = 2 -> request.includeContext.selection /\ request.context.selectedCode # ""
    [] k = 3 -> request.includeContext.project /\ request.context.projectStructure # ""
    [] OTHER -> request.includeContext.git /\ request.context.gitStatus # ""

\* the piece of context section k shows
SectionData(request, k) ==
  CASE k = 1 -> request.context.fileName
    [] k = 2 -> request.context.selectedCode
    [] k = 3 -> request.context.projectStructure
    [] OTHER -> request.context.gitStatus

\* C22: formatContext renders the section of a piece of context if and only if its
\* flag is set and the piece is present, with its data, and the sections stand in the
\* order file, selection, project, git; when nothing is rendered the block is empty
C22_SectionsByFlagAndData ==
  rule.op = "formatContext" =>
    LET out == rule.output
        req == rule.request
    IN  /\ \A k \in 1..4 :
             /\ Includes(out, SectionHeadings[k]) <=> SectionWanted(req, k)
             /\ SectionWanted(req, k) => Includes(out, SectionData(req, k))
        /\ \A j, k \in 1..4 :
             j < k /\ SectionWanted(req, j) /\ SectionWanted(req, k)
               => IndexOf(out, SectionHeadings[j]) < IndexOf(out, SectionHeadings[k])
        /\ (\A k \in 1..4 : ~SectionWanted(req, k)) => out = ""

\* every flag was set, the file and the project structure were present, the
\* selection and the git status absent: two sections, file first
C22_Witness ==
  /\ rule.op = "formatContext"
  /\ rule.request.includeContext = [file |-> TRUE, selection |-> TRUE,
                                    project |-> TRUE, git |-> TRUE]
  /\ rule.request.context = [fileName |-> "app.ts", language |-> "typescript",
                             selectedCode |-> "", projectStructure |-> "src/",
                             gitStatus |-> ""]
  /\ rule.output = "**File:** app.ts\n**Language:** typescript\n\n**Project Structure:**\nsrc/"

\* the clusters with a trigger keyword that occurs in the lower-cased text
MatchedClusters(text) ==
  { m \in 1..Len(TECHNICAL_ENHANCEMENTS) :
      \E k \in 1..Len(TECHNICAL_ENHANCEMENTS[m].keywords) :
        Includes(ToLowerCase(text), TECHNICAL_ENHANCEMENTS[m].keywords[k]) }

\* where a hint of the matched clusters is seen first: 3 * cluster + place in cluster
FirstSeen(text, term) ==
  Least({ 3 * at[1] + at[2] :
          at \in { at \in MatchedClusters(text) \X (1..3) :
                     TECHNICAL_ENHANCEMENTS[at[1]].technicalTerms[at[2]] = term } })

\* C23: addTechnicalTerms returns the hints of exactly the clusters with a trigger
\* keyword occurring case-insensitively in the input, each hint once, in the order in
\* which the hints are first seen going through the clusters as declared; no cluster
\* matched gives the empty sequence
C23_HintsOfMatchedClusters ==
  rule.op = "addTechnicalTerms" =>
    LET terms == rule.termsAdded
        matched == MatchedClusters(rule.input)
    IN  /\ { terms[i] : i \in 1..Len(terms) }
             = UNION { { TECHNICAL_ENHANCEMENTS[m].technicalTerms[t] : t \in 1..3 } :
                       m \in matched }
        /\ \A i, j \in 1..Len(terms) : i < j =>
             /\ terms[i] # terms[j]
             /\ FirstSeen(rule.input, terms[i]) < FirstSeen(rule.input, terms[j])
        /\ matched = {} => terms = <<>>

\* "save state" matched two clusters that share the hint "state management", and the
\* hint came back once, where the first of them put it
C23_Witness ==
  /\ rule.op = "addTechnicalTerms"
  /\ rule.input = "save state"
  /\ rule.termsAdded = <<"storage", "database operation", "state management",
                         "state update", "reactivity">>

\* the catalog entries declared for an intent
DeclaredFor(intent) ==
  { i \in 1..Len(PROMPT_TEMPLATES) : PROMPT_TEMPLATES[i].intent = intent }

\* the text of a template in front of its first placeholder
Opening(template) == SubSeq(template, 1, IndexOf(template, "{") - 1)

\* text starts with prefix
StartsWith(text, prefix) ==
  Len(text) >= Len(prefix) /\ SubSeq(text, 1, Len(prefix)) = prefix

\* C24: for each of the eight intents the catalog declares a template, and the prompt
\* of enhance opens as the first template declared for the request's intent does, not
\* as a later one and not as the description the no-template branch would put first
C24_FirstTemplateOfIntent ==
  /\ \A intent \in TaskIntents : DeclaredFor(intent) # {}
  /\ rule.op = "enhance" =>
       LET declared == DeclaredFor(rule.request.intent)
           first == Least(declared)
       IN  /\ StartsWith(rule.result.prompt, Opening(PROMPT_TEMPLATES[first].template))
           /\ \A i \in declared \ {first} :
                ~StartsWith(rule.result.prompt, Opening(PROMPT_TEMPLATES[i].template))

\* a request of intent add, which has a second template, got the add-feature text
C24_Witness ==
  /\ rule.op = "enhance"
  /\ rule.request.intent = "add"
  /\ rule.request.userInput = "want login form"
  /\ Cardinality(DeclaredFor("add")) = 2
  /\ StartsWith(rule.result.prompt, "Add the following feature: ")

\* the line of hints that closes a prompt
HintLine(terms) == "\n\n*Related concepts: " \o Join(terms, ", ") \o "*"

\* text ends with suffix
EndsWith(text, suffix) ==
  /\ Len(text) >= Len(suffix)
  /\ SubSeq(text, Len(text) - Len(suffix) + 1, Len(text)) = suffix

\* C25: the prompt of enhance ends with the line of the hints of the user input as it
\* was typed when a cluster matches that input, and has no such line when none does,
\* whatever the expanded description contains
C25_HintLineFromRawInput ==
  rule.op = "enhance" =>
    IF MatchedClusters(rule.request.userInput) # {}
    THEN EndsWith(rule.result.prompt,
                  HintLine(UniqueTerms(MatchedTerms(ToLowerCase(rule.request.userInput), 1))))
    ELSE ~Includes(rule.result.prompt, "*Related concepts: ")

\* "fix btn" names no trigger keyword; its expansion names "button", and the prompt
\* has the expansion and no line of hints
C25_Witness ==
  /\ rule.op = "enhance"
  /\ rule.request.userInput = "fix btn"
  /\ rule.request.intent = "fix"
  /\ MatchedClusters("fix btn") = {}
  /\ Includes(rule.result.prompt, "Fix and debug button.")
  /\ ~Includes(rule.result.prompt, "*Related concepts: ")

\* C26: a result the detector's cache holds after clearCache has run comes from a
\* detect call that began no earlier than that clearCache
C26_ClearNotUndone ==
  (cachedResult # NoDetection /\ lastClear # -1) => detStoredStart >= lastClear

\* invocation c issued a generation request and got a 2xx response with a JSON body
GenerationSucceeded(c) == Has(c.trace, "gen") /\ c.resp.kind = "json"

\* C27: an enhance that returns wasAiEnhanced = true has issued a generation request
\* in that invocation and received a 2xx, parseable response to it; an enhance that
\* returns without such a response returns the rule-based prompt with the flag false
C27_FlagTruthful ==
  \A p \in Procs :
    (call[p].op = "enhance" /\ call[p].pc = "returned") =>
      /\ call[p].result.wasAiEnhanced => GenerationSucceeded(call[p])
      /\ ~GenerationSucceeded(call[p]) => call[p].result = RuleBased(call[p].fallback)

\* an enhance returned an AI-enhanced prompt from the Anthropic API's answer
C27_Witness ==
  /\ call["enhance"].op = "enhance"
  /\ call["enhance"].pc = "returned"
  /\ call["enhance"].target = "anthropic"
  /\ GenerationSucceeded(call["enhance"])
  /\ call["enhance"].result.wasAiEnhanced
  /\ call["enhance"].result.prompt = Str_ai

\* C28: a checkOllama that reports available = false returns an empty model list
C28_UnavailableHasNoModels ==
  \A p \in Procs :
    call[p].ollamaStatus.available = "false" => call[p].ollamaStatus.models = <<>>

\* The webview's message listener and the command handler are async functions: a
\* message is handled while the handler of an earlier one is suspended in an await.
\* enhance is called while getStatus may be in progress
OverlapEnhanceStart(u, r) ==
  /\ Quiet
  /\ call["enhance"].pc = "idle"
  /\ EnhanceBegin(u, r)

\* getStatus is called while enhance may be in progress
OverlapGetStatusStart ==
  /\ Quiet
  /\ call["status"].pc = "idle"
  /\ GetStatusBegin

\* The orchestrator with overlapping invocations, the settings left alone.
OverlapNext ==
  \/ \E u \in UserInputs, r \in RulePrompts : OverlapEnhanceStart(u, r)
  \/ OverlapGetStatusStart
  \/ \E p \in Procs, ok, cursor \in BOOLEAN : ProbeResponse(p, ok, cursor)
  \/ \E p \in Procs, cursor \in BOOLEAN : ProbeAbort(p, cursor)
  \/ \E p \in Procs, models \in ModelLists, cursor \in BOOLEAN :
       ModelsResponse(p, models, cursor)
  \/ \E p \in Procs, claude, continue, cody, copilot \in BOOLEAN :
       ExecResponse(p, claude, continue, cody, copilot)
  \/ \E p \in Procs : DetectRejects(p)
  \/ \E p \in Procs, resp \in Responses(OllamaTexts) : GenResponse(p, resp)
  \/ \E p \in Procs : Deliver(p)

OverlapSpec == Init /\ [][OverlapNext]_vars

\* C29: a checkOllama whose own probe succeeded and whose own model fetch listed n
\* models returns available = true with a list of n models: the getStatus that made
\* the call reports that pair, and the enhance that made it, having a model, goes on
\* to the local backend and not to the detector
C29_OwnProbeOwnModels ==
  /\ call["status"].reported # -1 =>
       /\ call["status"].ollamaStatus.available = "true"
       /\ Len(call["status"].ollamaStatus.models) = call["status"].reported
  /\ call["enhance"].reported > 0 => ~Has(call["enhance"].trace, "detect")

\* C30: an enhance of a non-empty userInput that returns wasAiEnhanced = true returns
\* a non-empty prompt, whatever text the backend answered
C30_AiEnhancedPromptNotEmpty ==
  \A p \in Procs :
    (/\ call[p].op = "enhance"
     /\ call[p].pc = "returned"
     /\ call[p].userInput # <<>>
     /\ call[p].result.wasAiEnhanced) => call[p].result.prompt # <<>>

=============================================================================
